---- MODULE Spec2Model ----
(***************************************************************************)
(* Model of v_crypt (src/v_crypt/v_crypt.py): a master password kept in a  *)
(* text file, secrets encrypted with Fernet and kept in a json/yaml        *)
(* dictionary file.                                                        *)
(*                                                                         *)
(* Text (python str) is a sequence of code points, bytes a sequence of     *)
(* 0..255.  A file name is the sequence of its "."-separated parts, so     *)
(* that filename.split(".") is the value itself.                           *)
(***************************************************************************)
EXTENDS Integers, Sequences, FiniteSets, TLC

\* ------------------------------------------------------------------ bounds
\* number of library calls in one behaviour
MaxOps == 3

\* ------------------------------------------------------ python values
\* The result of a call: a returned value, a returned None, or an exception.
Ret(v) == [exc |-> "", none |-> FALSE, val |-> v]
RetNone == [exc |-> "", none |-> TRUE, val |-> <<>>]
Raise(e) == [exc |-> e, none |-> FALSE, val |-> <<>>]

\* An optional argument: None or a value.
None == [none |-> TRUE, val |-> <<>>]
Some(v) == [none |-> FALSE, val |-> v]

\* str.encode(): UTF-8, one byte below U+0080 and two bytes below U+0800.
RECURSIVE Utf8Encode(_)
Utf8Encode(s) ==
    IF s = <<>> THEN <<>>
    ELSE (IF Head(s) < 128 THEN <<Head(s)>>
          ELSE <<192 + (Head(s) \div 64), 128 + (Head(s) % 64)>>)
         \o Utf8Encode(Tail(s))

\* bytes.decode(): the inverse walk over the lead bytes.
RECURSIVE Utf8Decode(_)
Utf8Decode(b) ==
    IF b = <<>> THEN <<>>
    ELSE IF b[1] < 128 THEN <<b[1]>> \o Utf8Decode(Tail(b))
    ELSE <<(b[1] - 192) * 64 + (b[2] - 128)>> \o Utf8Decode(Tail(Tail(b)))

\* str.replace("\n", "")
RECURSIVE StripNewlines(_)
StripNewlines(s) ==
    IF s = <<>> THEN <<>>
    ELSE (IF Head(s) = 10 THEN <<>> ELSE <<Head(s)>>) \o StripNewlines(Tail(s))

\* ---------------------------------------------------------- input sets
\* Keys Fernet accepts (url-safe base64 of 32 bytes), shortened to one byte.
FernetKeys == {<<65>>, <<66>>}
\* A byte string that is no Fernet key.
BadKey == <<33>>
\* The random IV (with the timestamp) Fernet puts in a token.
IVs == {1, 2}
\* The plaintexts: U+00E9 (two bytes in UTF-8), alone and after "a" (one byte).
Plaintexts == {<<233>>, <<97, 233>>}
SecretKeys == {"a", "b"}

FILE_SECRET_DEFAULT == <<"secret", "txt">>
FILE_SECRETS_DEFAULT == <<"secrets", "json">>
KeyFileNames == {FILE_SECRET_DEFAULT, <<"other", "txt">>}
SecretsFiles == {FILE_SECRETS_DEFAULT, <<"secrets", "yaml">>, <<"secrets", "txt">>}
EnvVarNames == {"V_CRYPT_SECRET"}
Passwords == {None} \cup {Some(k) : k \in FernetKeys \cup {BadKey}}

\* ------------------------------------------------------------- files
NoDict == [k \in {} |-> 0]
Absent == [kind |-> "absent", text |-> <<>>, data |-> NoDict]
EmptyFile == [kind |-> "empty", text |-> <<>>, data |-> NoDict]
TextFile(t) == [kind |-> "text", text |-> t, data |-> NoDict]
DictFile(d) == [kind |-> "dict", text |-> <<>>, data |-> d]

VARIABLES
    keyFiles,       \* the master password files, by name
    env,            \* os.environ
    yamlInstalled,  \* whether "import yaml" succeeds
    files,          \* the secrets files, by name
    last,           \* the call that ended last and its result
    hist,           \* per file and secret: the last successful save_secret
    nops,           \* number of calls so far
    procs           \* concurrent callers of save_secret, by line reached

vars == <<keyFiles, env, yamlInstalled, files, last, hist, nops, procs>>

\* ------------------------------------------------------ master password
\* create_password opening the file with "a": the key lands after the old text.
CreatePasswordAppend(kf, filename, store_secret, key) ==
    IF store_secret
    THEN [kf EXCEPT ![filename] = TextFile(@.text \o Utf8Decode(key))]
    ELSE kf

\* create_password writes key.decode() over the file when store_secret.
CreatePasswordFiles(kf, filename, store_secret, key) ==
    IF store_secret
    THEN [kf EXCEPT ![filename] = TextFile(Utf8Decode(key))]
    ELSE kf

\* _get_password.  The environment branch names "os" and "c", which the
\* module never imports or defines: evaluating line 66 raises NameError
\* whatever ev holds.  A missing file is reported and None returned.
GetPassword(kf, ev, filename, environ_var_name) ==
    IF ~environ_var_name.none
    THEN Raise("NameError")
    ELSE IF kf[filename].kind = "absent"
         THEN RetNone
         ELSE Ret(Utf8Encode(StripNewlines(kf[filename].text)))

\* "if password is None: password = _get_password()"
ResolvePassword(kf, ev, password) ==
    IF password.none
    THEN LET r == GetPassword(kf, ev, FILE_SECRET_DEFAULT, None)
         IN  [none |-> r.none, val |-> r.val]
    ELSE password

\* ------------------------------------------------------------- Fernet
\* Fernet(password): base64-decoding None is a TypeError, a key that is
\* not 32 url-safe base64-encoded bytes a ValueError.
FernetError(password) ==
    IF password.none THEN "TypeError"
    ELSE IF password.val \notin FernetKeys THEN "ValueError"
    ELSE ""

NoToken == [key |-> <<>>, iv |-> 0, ct |-> <<>>]

\* _encrypt: the token carries the IV, the ciphertext of value.encode() and
\* an HMAC under the key; it is text, so it is stored as it is.
Encrypt(value, password, iv) ==
    IF FernetError(password) # ""
    THEN [exc |-> FernetError(password), tok |-> NoToken]
    ELSE [exc |-> "",
          tok |-> [key |-> password.val, iv |-> iv, ct |-> Utf8Encode(value)]]

\* _decrypt without the final .decode(): the bytes come back.
DecryptNoDecode(tok, password) ==
    IF FernetError(password) # "" THEN Raise(FernetError(password))
    ELSE IF tok.key # password.val THEN Raise("InvalidToken")
    ELSE Ret(tok.ct)

\* _decrypt: the HMAC is verified under the key before anything is
\* decrypted; a token made under another key is an InvalidToken.
Decrypt(tok, password) ==
    IF FernetError(password) # "" THEN Raise(FernetError(password))
    ELSE IF tok.key # password.val THEN Raise("InvalidToken")
    ELSE Ret(Utf8Decode(tok.ct))

\* ------------------------------------------------------- dictionaries
ReadOk(d) == [exc |-> "", none |-> FALSE, data |-> d]
ReadNone == [exc |-> "", none |-> TRUE, data |-> NoDict]
ReadRaise(e) == [exc |-> e, none |-> FALSE, data |-> NoDict]

\* open(filename, "w") truncates or creates the file.
OpenW(fs, filename) == [fs EXCEPT ![filename] = EmptyFile]

\* json.dump / yaml.dump of the whole dictionary into the opened file.
Dump(fs, filename, data) == [fs EXCEPT ![filename] = DictFile(data)]

\* _read_dictionary: unpacking the split name needs exactly two parts; an
\* extension that is neither json nor yml/yaml falls through both ifs and
\* the function returns None.  An empty file is no JSON document, and
\* yaml.load of an empty stream is None.
ReadDictionary(fs, yaml, filename) ==
    IF Len(filename) # 2 THEN ReadRaise("ValueError")
    ELSE IF filename[2] = "json"
    THEN CASE fs[filename].kind = "absent" -> ReadRaise("FileNotFoundError")
           [] fs[filename].kind = "empty" -> ReadRaise("JSONDecodeError")
           [] OTHER -> ReadOk(fs[filename].data)
    ELSE IF filename[2] \in {"yml", "yaml"}
    THEN IF ~yaml THEN ReadRaise("ImportError")
         ELSE CASE fs[filename].kind = "absent" -> ReadRaise("FileNotFoundError")
                [] fs[filename].kind = "empty" -> ReadNone
                [] OTHER -> ReadOk(fs[filename].data)
    ELSE ReadNone

\* _store_dictionary: the same dispatch; any other extension writes
\* nothing and returns normally.
StoreDictionary(fs, yaml, data, filename) ==
    IF Len(filename) # 2 THEN [exc |-> "ValueError", files |-> fs]
    ELSE IF filename[2] = "json"
    THEN [exc |-> "", files |-> Dump(OpenW(fs, filename), filename, data)]
    ELSE IF filename[2] \in {"yml", "yaml"}
    THEN IF ~yaml THEN [exc |-> "ImportError", files |-> fs]
         ELSE [exc |-> "", files |-> Dump(OpenW(fs, filename), filename, data)]
    ELSE [exc |-> "", files |-> fs]

\* data = {key: token}: the loaded entries are dropped.
PutFresh(data, key, tok) == [k \in {key} |-> tok]

\* data[key] = token
Put(data, key, tok) ==
    [k \in DOMAIN data \cup {key} |-> IF k = key THEN tok ELSE data[k]]

\* _read_dictionary without the except clause around it.
LoadNoCatch(fs, yaml, filename) == ReadDictionary(fs, yaml, filename)

\* "try: data = _read_dictionary(...) except FileNotFoundError: data = {}"
LoadOrEmpty(fs, yaml, filename) ==
    IF ReadDictionary(fs, yaml, filename).exc = "FileNotFoundError"
    THEN ReadOk(NoDict)
    ELSE ReadDictionary(fs, yaml, filename)

\* ------------------------------------------------------- save / get
\* save_secret: [res, files].  The right-hand side of line 185 is evaluated
\* before the item assignment, so a Fernet error comes before the TypeError
\* of assigning into None.
SaveSecretCall(fs, kf, ev, yaml, key, value, password, secrets_file, iv) ==
    LET pw == ResolvePassword(kf, ev, password)
        rd == LoadOrEmpty(fs, yaml, secrets_file)
        enc == Encrypt(value, pw, iv)
        st == StoreDictionary(fs, yaml, Put(rd.data, key, enc.tok), secrets_file)
    IN  IF rd.exc # "" THEN [res |-> Raise(rd.exc), files |-> fs]
        ELSE IF enc.exc # "" THEN [res |-> Raise(enc.exc), files |-> fs]
        ELSE IF rd.none THEN [res |-> Raise("TypeError"), files |-> fs]
        ELSE IF st.exc # "" THEN [res |-> Raise(st.exc), files |-> fs]
        ELSE [res |-> RetNone, files |-> st.files]

\* get_secret handing the stored token back undecrypted when the password
\* does not open it.
GetSecretNoVerify(fs, kf, ev, yaml, key, password, secrets_file) ==
    LET pw == ResolvePassword(kf, ev, password)
        rd == LoadOrEmpty(fs, yaml, secrets_file)
    IN  IF rd.exc # "" THEN Raise(rd.exc)
        ELSE IF rd.none THEN Raise("TypeError")
        ELSE IF key \notin DOMAIN rd.data THEN RetNone
        ELSE IF FernetError(pw) # "" THEN Raise(FernetError(pw))
        ELSE Ret(Utf8Decode(rd.data[key].ct))

\* get_secret: "key not in data" on None is a TypeError; an absent key is
\* reported and None returned before the password is ever used.
GetSecretCall(fs, kf, ev, yaml, key, password, secrets_file) ==
    LET pw == ResolvePassword(kf, ev, password)
        rd == LoadOrEmpty(fs, yaml, secrets_file)
    IN  IF rd.exc # "" THEN Raise(rd.exc)
        ELSE IF rd.none THEN Raise("TypeError")
        ELSE IF key \notin DOMAIN rd.data THEN RetNone
        ELSE Decrypt(rd.data[key], pw)

\* ------------------------------------------------------------- state
NoCall == [op |-> "none", res |-> RetNone]

NoSave == [n |-> 0, value |-> <<>>, password |-> <<>>]

IdleProc ==
    [pc |-> "idle", key |-> "", value |-> <<>>, password |-> None,
     file |-> <<>>, none |-> FALSE, data |-> NoDict]

Procs == {1, 2}

\* Nothing is on disk yet.
Init ==
    /\ keyFiles = [f \in KeyFileNames |-> Absent]
    /\ env = [v \in EnvVarNames |-> None]
    /\ yamlInstalled \in BOOLEAN
    /\ files = [f \in SecretsFiles |-> Absent]
    /\ last = NoCall
    /\ hist = [f \in SecretsFiles |-> [k \in SecretKeys |-> NoSave]]
    /\ nops = 0
    /\ procs = [p \in Procs |-> IdleProc]

create_password(filename, store_secret, key) ==
    /\ nops < MaxOps
    /\ keyFiles' = CreatePasswordFiles(keyFiles, filename, store_secret, key)
    /\ last' = [op |-> "create_password", res |-> Ret(key)]
    /\ nops' = nops + 1
    /\ UNCHANGED <<env, yamlInstalled, files, hist, procs>>

save_secret(key, value, password, secrets_file, iv) ==
    LET c == SaveSecretCall(files, keyFiles, env, yamlInstalled,
                            key, value, password, secrets_file, iv)
    IN  /\ nops < MaxOps
        /\ files' = c.files
        /\ last' = [op |-> "save_secret", res |-> c.res]
        /\ hist' = IF c.res = RetNone
                   THEN [hist EXCEPT ![secrets_file][key] =
                           [n |-> @.n + 1, value |-> value,
                            password |-> ResolvePassword(keyFiles, env, password).val]]
                   ELSE hist
        /\ nops' = nops + 1
        /\ UNCHANGED <<keyFiles, env, yamlInstalled, procs>>

get_secret(key, password, secrets_file) ==
    /\ nops < MaxOps
    /\ last' = [op |-> "get_secret",
                res |-> GetSecretCall(files, keyFiles, env, yamlInstalled,
                                      key, password, secrets_file)]
    /\ nops' = nops + 1
    /\ UNCHANGED <<keyFiles, env, yamlInstalled, files, hist, procs>>

Next ==
    \/ \E k \in FernetKeys : create_password(FILE_SECRET_DEFAULT, TRUE, k)
    \/ \E k \in SecretKeys, v \in Plaintexts, pw \in Passwords,
          f \in SecretsFiles, iv \in IVs :
          save_secret(k, v, pw, f, iv)
    \/ \E k \in SecretKeys, pw \in Passwords, f \in SecretsFiles :
          get_secret(k, pw, f)

Spec == Init /\ [][Next]_vars

\* --------------------------------------------- the master password alone
\* _get_password called on its own; the result is returned to the caller.
get_password(filename, environ_var_name) ==
    /\ nops < MaxOps
    /\ last' = [op |-> "get_password",
                res |-> GetPassword(keyFiles, env, filename, environ_var_name)]
    /\ nops' = nops + 1
    /\ UNCHANGED <<keyFiles, env, yamlInstalled, files, hist, procs>>

\* The user has stored a key in the default file by hand, with the newline
\* an editor leaves; the environment variable is set or not.
InitKey ==
    /\ keyFiles = [f \in KeyFileNames |->
                     IF f = FILE_SECRET_DEFAULT
                     THEN TextFile(<<66, 10>>) ELSE Absent]
    /\ env \in {[v \in EnvVarNames |-> None], [v \in EnvVarNames |-> Some(<<65>>)]}
    /\ yamlInstalled = TRUE
    /\ files = [f \in SecretsFiles |-> Absent]
    /\ last = NoCall
    /\ hist = [f \in SecretsFiles |-> [k \in SecretKeys |-> NoSave]]
    /\ nops = 0
    /\ procs = [p \in Procs |-> IdleProc]

NextKey ==
    \/ \E f \in KeyFileNames, s \in BOOLEAN, k \in FernetKeys :
          create_password(f, s, k)
    \/ \E f \in KeyFileNames, v \in {None} \cup {Some(n) : n \in EnvVarNames} :
          get_password(f, v)

SpecKey == InitKey /\ [][NextKey]_vars

\* ------------------------------------- save_secret, statement by statement
\* Two callers (two processes on one directory) run save_secret; each step
\* below is one statement of save_secret or of _store_dictionary.

\* lines 175-176: the password is resolved
save_secret_enter(p, key, value, password, secrets_file) ==
    /\ procs[p].pc = "idle"
    /\ procs' = [procs EXCEPT ![p] =
                   [IdleProc EXCEPT !.pc = "read", !.key = key, !.value = value,
                       !.password = ResolvePassword(keyFiles, env, password),
                       !.file = secrets_file]]
    /\ UNCHANGED <<keyFiles, env, yamlInstalled, files, last, hist, nops>>

\* lines 179-183: the dictionary is loaded
save_secret_read(p) ==
    LET rd == LoadOrEmpty(files, yamlInstalled, procs[p].file)
    IN  /\ procs[p].pc = "read"
        /\ procs' = [procs EXCEPT ![p].pc = IF rd.exc # "" THEN "raised" ELSE "assign",
                                  ![p].none = rd.none,
                                  ![p].data = rd.data]
        /\ UNCHANGED <<keyFiles, env, yamlInstalled, files, last, hist, nops>>

\* line 185: data[key] = _encrypt(value, password)
save_secret_assign(p, iv) ==
    LET enc == Encrypt(procs[p].value, procs[p].password, iv)
    IN  /\ procs[p].pc = "assign"
        /\ procs' = IF enc.exc # "" \/ procs[p].none
                    THEN [procs EXCEPT ![p].pc = "raised"]
                    ELSE [procs EXCEPT ![p].pc = "open",
                                       ![p].data = Put(@, procs[p].key, enc.tok)]
        /\ UNCHANGED <<keyFiles, env, yamlInstalled, files, last, hist, nops>>

\* lines 121-125 and 129-137: the dispatch and open(filename, "w")
store_dictionary_open(p) ==
    LET st == StoreDictionary(files, yamlInstalled, procs[p].data, procs[p].file)
    IN  /\ procs[p].pc = "open"
        /\ IF st.exc # ""
           THEN /\ procs' = [procs EXCEPT ![p].pc = "raised"]
                /\ files' = files
           ELSE IF procs[p].file[2] \notin {"json", "yml", "yaml"}
           THEN /\ procs' = [procs EXCEPT ![p].pc = "done"]
                /\ files' = files
           ELSE /\ procs' = [procs EXCEPT ![p].pc = "dump"]
                /\ files' = OpenW(files, procs[p].file)
        /\ UNCHANGED <<keyFiles, env, yamlInstalled, last, hist, nops>>

\* lines 126 and 138: the dictionary is written and the file closed
store_dictionary_dump(p) ==
    /\ procs[p].pc = "dump"
    /\ files' = Dump(files, procs[p].file, procs[p].data)
    /\ procs' = [procs EXCEPT ![p].pc = "done"]
    /\ UNCHANGED <<keyFiles, env, yamlInstalled, last, hist, nops>>

\* lines 126 and 138: the write raises OSError (disk full, process killed)
\* and nothing restores the file the open has truncated
store_dictionary_fail(p) ==
    /\ procs[p].pc = "dump"
    /\ procs' = [procs EXCEPT ![p].pc = "raised"]
    /\ UNCHANGED <<keyFiles, env, yamlInstalled, files, last, hist, nops>>

InitConc ==
    /\ keyFiles = [f \in KeyFileNames |->
                     IF f = FILE_SECRET_DEFAULT
                     THEN TextFile(<<65>>) ELSE Absent]
    /\ env = [v \in EnvVarNames |-> None]
    /\ yamlInstalled = TRUE
    /\ files = [f \in SecretsFiles |-> Absent]
    /\ last = NoCall
    /\ hist = [f \in SecretsFiles |-> [k \in SecretKeys |-> NoSave]]
    /\ nops = 0
    /\ procs = [p \in Procs |-> IdleProc]

NextConc ==
    \/ \E p \in Procs, k \in SecretKeys, v \in Plaintexts,
          f \in {FILE_SECRETS_DEFAULT, <<"secrets", "yaml">>} :
          save_secret_enter(p, k, v, None, f)
    \/ \E p \in Procs : save_secret_read(p)
    \/ \E p \in Procs, iv \in IVs : save_secret_assign(p, iv)
    \/ \E p \in Procs : store_dictionary_open(p)
    \/ \E p \in Procs : store_dictionary_dump(p)
    \/ \E p \in Procs : store_dictionary_fail(p)

SpecConc == InitConc /\ [][NextConc]_vars

\* ============================================================ properties

\* An extension _read_dictionary and _store_dictionary have a branch for,
\* with the module that branch imports at hand.
SupportedFormat(f) ==
    /\ Len(f) = 2
    /\ \/ f[2] = "json"
       \/ f[2] \in {"yml", "yaml"} /\ yamlInstalled

\* C1: a successful save_secret(k, v) (the step that counts one more save of
\* k in hist) leaves a dictionary file whose keys are the old keys and k,
\* whose entry for k decrypts to v under the password used, and whose other
\* entries are the old tokens; a file that did not exist holds k alone; no
\* other file changes.
C1_MergeOnWrite ==
    [][\A f \in SecretsFiles, k \in SecretKeys :
          hist'[f][k].n = hist[f][k].n + 1 =>
             /\ files'[f].kind = "dict"
             /\ DOMAIN files'[f].data =
                  (IF files[f].kind = "dict" THEN DOMAIN files[f].data ELSE {}) \cup {k}
             /\ Decrypt(files'[f].data[k], Some(hist'[f][k].password))
                   = Ret(hist'[f][k].value)
             /\ \A j \in DOMAIN files'[f].data \ {k} :
                   files'[f].data[j] = files[f].data[j]
             /\ \A g \in SecretsFiles \ {f} : files'[g] = files[g]]_vars

\* A save_secret has just succeeded on a file where "a" was saved twice and
\* "b" is stored too.
C1_Witness ==
    /\ last = [op |-> "save_secret", res |-> RetNone]
    /\ \E f \in SecretsFiles :
          /\ hist[f]["a"].n >= 2
          /\ files[f].kind = "dict"
          /\ {"a", "b"} \subseteq DOMAIN files[f].data

\* C2: after any successful save_secret calls, get_secret(k) with the
\* password of the most recent save_secret of k returns the plaintext of
\* that save.
C2_RoundTrip ==
    \A f \in SecretsFiles, k \in SecretKeys :
       hist[f][k].n > 0 =>
          GetSecretCall(files, keyFiles, env, yamlInstalled,
                        k, Some(hist[f][k].password), f) = Ret(hist[f][k].value)

\* A get_secret has returned U+00E9, the value of a secret saved twice.
C2_Witness ==
    /\ last = [op |-> "get_secret", res |-> Ret(<<233>>)]
    /\ \E f \in SecretsFiles, k \in SecretKeys :
          hist[f][k].n >= 2 /\ hist[f][k].value = <<233>>

\* C3: with no password passed and no key file, get_secret and save_secret
\* raise, and save_secret leaves the files alone.
C3_KeyResolutionFatal ==
    [][keyFiles[FILE_SECRET_DEFAULT].kind = "absent" =>
          \A k \in SecretKeys, f \in SecretsFiles :
             /\ get_secret(k, None, f) => last'.res.exc # ""
             /\ \A v \in Plaintexts, iv \in IVs :
                   save_secret(k, v, None, f, iv) =>
                      (last'.res.exc # "" /\ files' = files)]_vars

\* C4: when two save_secret calls for distinct secrets on one file have
\* both returned, the file holds both secrets.
C4_NoLostUpdate ==
    \A p \in Procs, q \in Procs :
       (/\ procs[p].pc = "done" /\ procs[q].pc = "done"
        /\ procs[p].file = procs[q].file
        /\ procs[p].key # procs[q].key) =>
          /\ files[procs[p].file].kind = "dict"
          /\ {procs[p].key, procs[q].key} \subseteq DOMAIN files[procs[p].file].data

\* C5: at every point of a save_secret, failed or not, the file is absent
\* or a complete dictionary, never empty or cut short.
C5_AtomicSave ==
    \A f \in SecretsFiles : files[f].kind \in {"absent", "dict"}

C7_UnsupportedFormat ==
    [][\A k \in SecretKeys, pw \in Passwords, f \in SecretsFiles :
          (Len(f) # 2 \/ f[Len(f)] \notin {"json", "yml", "yaml"}) =>
             /\ get_secret(k, pw, f) => last'.res = Raise("UnsupportedFormatError")
             /\ \A v \in Plaintexts, iv \in IVs :
                   save_secret(k, v, pw, f, iv) =>
                      (last'.res = Raise("UnsupportedFormatError") /\ files' = files)]_vars

\* C8: get_secret of a stored secret with a key other than the one it was
\* saved with raises InvalidToken: no plaintext, no None.
C8_WrongKey ==
    \A f \in SecretsFiles, k \in SecretKeys :
       hist[f][k].n > 0 =>
          \A k2 \in FernetKeys \ {hist[f][k].password} :
             GetSecretCall(files, keyFiles, env, yamlInstalled, k, Some(k2), f)
                = Raise("InvalidToken")

\* A get_secret has raised InvalidToken.
C8_Witness ==
    /\ last = [op |-> "get_secret", res |-> Raise("InvalidToken")]
    /\ \E f \in SecretsFiles, k \in SecretKeys : hist[f][k].n > 0

\* C9: create_password returns the generated key; when it stores it, reading
\* the password back from that file gives the returned key, whatever the
\* file held; when it does not, no key file changes; no other key file
\* changes either way.
C9_CreatePassword ==
    [][\A f \in KeyFileNames, s \in BOOLEAN, key \in FernetKeys :
          create_password(f, s, key) =>
             /\ last'.res = Ret(key)
             /\ s => GetPassword(keyFiles', env, f, None) = Ret(key)
             /\ ~s => keyFiles' = keyFiles
             /\ \A g \in KeyFileNames \ {f} : keyFiles'[g] = keyFiles[g]]_vars

\* create_password has returned key "A" and the default file, which held
\* key "B" and a newline, now reads back as "A".
C9_Witness ==
    /\ last = [op |-> "create_password", res |-> Ret(<<65>>)]
    /\ keyFiles[FILE_SECRET_DEFAULT] = TextFile(<<65>>)
    /\ GetPassword(keyFiles, env, FILE_SECRET_DEFAULT, None) = Ret(<<65>>)

\* C10: _get_password with an environment variable name returns that
\* variable's value as bytes when it is set and fails with KeyNotFoundError
\* when it is not.
C10_EnvironVar ==
    [][\A f \in KeyFileNames, n \in EnvVarNames :
          get_password(f, Some(n)) =>
             last'.res = IF env[n].none THEN Raise("KeyNotFoundError")
                         ELSE Ret(Utf8Encode(env[n].val))]_vars

====
